---- MODULE Spec2Model ----
(***************************************************************************)
(* Serial autocorrelation test (q7_autocorrelation.py).                    *)
(*                                                                         *)
(* The two functions of the module, parse_input_numbers and                *)
(* autocorrelation_test, are modelled as operators that compute what the   *)
(* Python code computes, and a caller that invokes them one call at a      *)
(* time: a Call action binds the arguments, a Return action runs the whole *)
(* function body and binds the returned value.                             *)
(*                                                                         *)
(* Numbers are rationals <<n, d>> in lowest terms with d > 0; <<0, 0>> is  *)
(* NaN and <<1, 0>>, <<-1, 0>> are the infinities.  The arithmetic of a    *)
(* call is either exact ("exact") or binary floating point with            *)
(* round-to-nearest-even after every operation ("float"), at a mantissa of *)
(* Prec bits (an IEEE double has 53).                                      *)
(***************************************************************************)
EXTENDS Integers, Sequences, FiniteSets

VARIABLES pc, fn, arith, input_text, numbers, i, m, alpha, result

vars == <<pc, fn, arith, input_text, numbers, i, m, alpha, result>>

\* ------------------------------------------------------------- bounds
MaxTextLen == 4
MaxN == 4
Prec == 3

\* ------------------------------------------------------------- numbers
NaN == <<0, 0>>

AbsInt(a) == IF a < 0 THEN -a ELSE a

SignInt(a) == IF a < 0 THEN -1 ELSE IF a > 0 THEN 1 ELSE 0

RECURSIVE GCD(_, _)
GCD(a, b) == IF b = 0 THEN a ELSE GCD(b, a % b)

\* n/d in lowest terms, the sign on the numerator; x/0 is an infinity or NaN
Norm(n, d) ==
    IF d = 0 THEN <<SignInt(n), 0>>
    ELSE LET g == GCD(AbsInt(n), AbsInt(d))
             s == IF d < 0 THEN -1 ELSE 1
         IN  <<(s * n) \div g, (s * d) \div g>>

Q(n) == <<n, 1>>

IsNaN(x) == x = NaN

IsFinite(x) == x[2] # 0

Add(x, y) ==
    IF x[2] = 0 /\ y[2] = 0 THEN (IF x = y THEN x ELSE NaN)
    ELSE Norm(x[1] * y[2] + y[1] * x[2], x[2] * y[2])

Neg(x) == <<-x[1], x[2]>>

Sub(x, y) == Add(x, Neg(y))

Mul(x, y) == Norm(x[1] * y[1], x[2] * y[2])

Div(x, y) ==
    IF y[2] = 0 THEN (IF IsFinite(x) /\ y[1] # 0 THEN Q(0) ELSE NaN)
    ELSE IF y[1] = 0 THEN <<SignInt(x[1]), 0>>
    ELSE Norm(x[1] * y[2] * SignInt(y[1]), x[2] * AbsInt(y[1]))

Abs(x) == <<AbsInt(x[1]), x[2]>>

\* a/b > c/d for a, c >= 0 and b, d > 0, by continued fractions (no products)
RECURSIVE FracGT(_, _, _, _)
FracGT(a, b, c, d) ==
    LET qa == a \div b
        qc == c \div d
        ra == a % b
        rc == c % d
    IN  IF qa # qc THEN qa > qc
        ELSE IF ra = 0 THEN FALSE
        ELSE IF rc = 0 THEN TRUE
        ELSE FracGT(d, rc, b, ra)

\* x > y; every comparison with NaN is false
GT(x, y) ==
    IF IsNaN(x) \/ IsNaN(y) \/ x = y THEN FALSE
    ELSE IF x[2] = 0 THEN x[1] > 0
    ELSE IF y[2] = 0 THEN y[1] < 0
    ELSE IF x[1] <= 0 /\ y[1] >= 0 THEN FALSE
    ELSE IF x[1] >= 0 /\ y[1] <= 0 THEN TRUE
    ELSE IF x[1] > 0 THEN FracGT(x[1], x[2], y[1], y[2])
    ELSE FracGT(-y[1], y[2], -x[1], x[2])

RECURSIVE Pow2(_)
Pow2(k) == IF k = 0 THEN 1 ELSE 2 * Pow2(k - 1)

\* scale n/d (n, d > 0) by powers of two until Pow2(Prec-1) <= n/d < Pow2(Prec)
RECURSIVE Normalize(_, _, _)
Normalize(n, d, e) ==
    IF n >= Pow2(Prec) * d THEN Normalize(n, 2 * d, e + 1)
    ELSE IF n < Pow2(Prec - 1) * d THEN Normalize(2 * n, d, e - 1)
    ELSE <<n, d, e>>

\* x * 2^e for an integer x
Scale2(x, e) == IF e >= 0 THEN Q(x * Pow2(e)) ELSE Norm(x, Pow2(-e))

\* round to nearest, ties to even, at a mantissa of Prec bits
RoundNearestEven(x) ==
    IF x[2] = 0 \/ x[1] = 0 THEN x
    ELSE LET t == Normalize(AbsInt(x[1]), x[2], 0)
             mant == t[1] \div t[2]
             rem == t[1] % t[2]
             up == 2 * rem > t[2] \/ (2 * rem = t[2] /\ mant % 2 = 1)
             r == IF up THEN mant + 1 ELSE mant
         IN  Scale2(SignInt(x[1]) * r, t[3])

\* the result of one arithmetic operation, as the arithmetic stores it
Fl(ar, x) == IF ar = "float" THEN RoundNearestEven(x) ELSE x

\* ------------------------------------------------------------- text
Digits == {"0", "1"}

Whitespace == {" ", "\n"}

Chars == Digits \cup Whitespace \cup {".", "-", "x", ","}

DigitValue(c) == IF c = "1" THEN 1 ELSE 0

\* str.strip(): leading and trailing whitespace removed
RECURSIVE lstrip(_)
lstrip(s) == IF s # <<>> /\ Head(s) \in Whitespace THEN lstrip(Tail(s)) ELSE s

RECURSIVE rstrip(_)
rstrip(s) ==
    IF s # <<>> /\ s[Len(s)] \in Whitespace THEN rstrip(SubSeq(s, 1, Len(s) - 1)) ELSE s

strip(s) == rstrip(lstrip(s))

\* str.split(sep): the pieces between the separators, empty pieces kept
RECURSIVE split_sep(_, _)
split_sep(s, sep) ==
    IF \A k \in 1..Len(s) : s[k] # sep THEN <<s>>
    ELSE LET k == CHOOSE j \in 1..Len(s) : s[j] = sep /\ \A h \in 1..(j - 1) : s[h] # sep
         IN  <<SubSeq(s, 1, k - 1)>> \o split_sep(SubSeq(s, k + 1, Len(s)), sep)

\* fault: the commas are left in place
replace_nothing(s) == s

\* str.replace(',', ' ')
replace_comma(s) == [k \in 1..Len(s) |-> IF s[k] = "," THEN " " ELSE s[k]]

\* str.split(): the maximal runs of non-whitespace, no empty pieces
RECURSIVE split_ws(_)
split_ws(s) ==
    LET t == lstrip(s)
    IN  IF t = <<>> THEN <<>>
        ELSE LET k == CHOOSE j \in 1..(Len(t) + 1) :
                          /\ j = Len(t) + 1 \/ t[j] \in Whitespace
                          /\ \A h \in 1..(j - 1) : t[h] \notin Whitespace
             IN  <<SubSeq(t, 1, k - 1)>> \o split_ws(SubSeq(t, k, Len(t)))

\* float(part) succeeds: an optional sign, then digits with at most one point
\* and at least one digit
float_ok(part) ==
    LET body == IF part # <<>> /\ Head(part) = "-" THEN Tail(part) ELSE part
    IN  /\ \A k \in 1..Len(body) : body[k] \in Digits \cup {"."}
        /\ \E k \in 1..Len(body) : body[k] \in Digits
        /\ Cardinality({k \in 1..Len(body) : body[k] = "."}) <= 1

RECURSIVE Pow10(_)
Pow10(k) == IF k = 0 THEN 1 ELSE 10 * Pow10(k - 1)

RECURSIVE DigitsValue(_)
DigitsValue(s) ==
    IF s = <<>> THEN 0 ELSE 10 * DigitsValue(SubSeq(s, 1, Len(s) - 1)) + DigitValue(s[Len(s)])

\* float(part) for a part that parses: the decimal value, stored in the arithmetic
float_value(ar, part) ==
    LET neg == Head(part) = "-"
        body == IF neg THEN Tail(part) ELSE part
        dot == {k \in 1..Len(body) : body[k] = "."}
        frac == IF dot = {} THEN 0 ELSE Len(body) - (CHOOSE k \in dot : TRUE)
        digs == SelectSeq(body, LAMBDA c : c \in Digits)
        v == Norm(DigitsValue(digs), Pow10(frac))
    IN  Fl(ar, IF neg THEN Neg(v) ELSE v)

\* the inner loop: numbers.append(float(part)), a ValueError skips the part
RECURSIVE parse_parts(_, _)
parse_parts(ar, parts) ==
    IF parts = <<>> THEN <<>>
    ELSE (IF float_ok(Head(parts)) THEN <<float_value(ar, Head(parts))>> ELSE <<>>)
         \o parse_parts(ar, Tail(parts))

\* the outer loop over the lines
RECURSIVE parse_lines(_, _)
parse_lines(ar, lines) ==
    IF lines = <<>> THEN <<>>
    ELSE parse_parts(ar, split_ws(replace_comma(Head(lines))))
         \o parse_lines(ar, Tail(lines))

parse_input_numbers(ar, text) == parse_lines(ar, split_sep(strip(text), "\n"))

\* ------------------------------------------------------------- arrays
\* numbers[:stop], a Python slice: a negative stop counts from the end
slice_to(a, stop) ==
    LET n == Len(a)
        e == IF stop < 0 THEN (IF n + stop < 0 THEN 0 ELSE n + stop)
             ELSE (IF stop > n THEN n ELSE stop)
    IN  SubSeq(a, 1, e)

\* fault: the slice starts one element late
slice_from_next(a, start) ==
    LET n == Len(a)
        b == IF start < 0 THEN (IF n + start < 0 THEN 0 ELSE n + start)
             ELSE (IF start > n THEN n ELSE start)
    IN  SubSeq(a, b + 2, n)

\* numbers[start:], a Python slice: a negative start counts from the end
slice_from(a, start) ==
    LET n == Len(a)
        b == IF start < 0 THEN (IF n + start < 0 THEN 0 ELSE n + start)
             ELSE (IF start > n THEN n ELSE start)
    IN  SubSeq(a, b + 1, n)

\* array - scalar, elementwise
RECURSIVE array_minus(_, _, _)
array_minus(ar, a, c) ==
    IF a = <<>> THEN <<>>
    ELSE <<Fl(ar, Sub(Head(a), c))>> \o array_minus(ar, Tail(a), c)

\* numpy broadcasting of two one-dimensional shapes: equal, or one of them 1
broadcastable(a, b) == Len(a) = Len(b) \/ Len(a) = 1 \/ Len(b) = 1

\* a length-1 array stretched to n elements
RECURSIVE stretch(_, _)
stretch(a, n) == IF n = 0 THEN <<>> ELSE a \o stretch(a, n - 1)

\* array * array, elementwise, over two arrays of one length
RECURSIVE zip_times(_, _, _)
zip_times(ar, a, b) ==
    IF a = <<>> THEN <<>>
    ELSE <<Fl(ar, Mul(Head(a), Head(b)))>> \o zip_times(ar, Tail(a), Tail(b))

\* array * array, elementwise, a length-1 operand stretched to the other's length
array_times(ar, a, b) ==
    IF Len(a) = Len(b) THEN zip_times(ar, a, b)
    ELSE IF Len(a) = 1 THEN zip_times(ar, stretch(a, Len(b)), b)
    ELSE zip_times(ar, a, stretch(b, Len(a)))

\* array ** 2, elementwise
array_square(ar, a) == zip_times(ar, a, a)

\* np.sum: the elements added left to right (an array of fewer than 8
\* elements is not summed pairwise), 0.0 for no element
RECURSIVE np_sum(_, _)
np_sum(ar, a) ==
    IF a = <<>> THEN Q(0)
    ELSE Fl(ar, Add(np_sum(ar, SubSeq(a, 1, Len(a) - 1)), a[Len(a)]))

\* np.mean: the sum over the count, NaN for an empty array
np_mean(ar, a) == IF a = <<>> THEN NaN ELSE Fl(ar, Div(np_sum(ar, a), Q(Len(a))))

\* ------------------------------------------------------------- reals
\* A real q * sqrt(root): exact arithmetic keeps the root symbolic, floating
\* point rounds it to a float (root = 1).
RECURSIVE ISqrt(_, _)
ISqrt(n, k) == IF (k + 1) * (k + 1) > n THEN k ELSE ISqrt(n, k + 1)

RECURSIVE SqrtScaled(_, _)
SqrtScaled(n, e) ==
    IF ISqrt(n, 0) >= Pow2(Prec - 1) THEN <<n, e>> ELSE SqrtScaled(4 * n, e + 1)

\* np.sqrt(N) for an integer N >= 0
np_sqrt(ar, n) ==
    IF ar = "exact" THEN [q |-> Q(1), root |-> n]
    ELSE IF n = 0 THEN [q |-> Q(0), root |-> 1]
    ELSE LET t == SqrtScaled(n, 0)
             f == ISqrt(t[1], 0)
             r == IF (2 * f + 1) * (2 * f + 1) < 4 * t[1] THEN f + 1 ELSE f
         IN  [q |-> Fl(ar, Norm(r, Pow2(t[2]))), root |-> 1]

\* scalar * real
real_times(ar, x, z) == [q |-> Fl(ar, Mul(x, z.q)), root |-> z.root]

\* abs(real)
real_abs(z) == [q |-> Abs(z.q), root |-> z.root]

\* real > scalar; every comparison with NaN is false
real_gt(z, c) ==
    IF IsNaN(z.q) \/ IsNaN(c) THEN FALSE
    ELSE IF z.root = 1 \/ ~IsFinite(z.q) \/ ~IsFinite(c) THEN GT(z.q, c)
    ELSE IF z.root = 0 \/ z.q[1] = 0 THEN GT(Q(0), c)
    ELSE IF z.q[1] > 0 /\ c[1] <= 0 THEN TRUE
    ELSE IF z.q[1] < 0 /\ c[1] >= 0 THEN FALSE
    ELSE LET x == AbsInt(z.q[1]) * c[2]
             y == AbsInt(c[1]) * z.q[2]
         IN  IF z.q[1] > 0 THEN FracGT(x * z.root, y, y, x)
             ELSE FracGT(y, x, x * z.root, y)

\* ------------------------------------------------------------- the test
\* stats.norm.ppf, the standard normal quantile, to three decimals
norm_ppf(p) ==
    CASE p = <<39, 40>> -> <<49, 25>>
      [] p = <<16827, 20000>> -> <<1, 1>>
      [] p = <<3, 4>> -> <<337, 500>>
      [] OTHER -> NaN

None == <<>>

DEPENDENT == "Numbers are DEPENDENT (autocorrelation present)"

INDEPENDENT == "Numbers are INDEPENDENT (no autocorrelation)"

\* fault: range(0, N)
positions_from_zero(n) == [k \in 1..n |-> k - 1]

\* range(1, N + 1)
positions_of(n) == [k \in 1..n |-> k]

\* fault: abs(Z0) >= Z_critical
reject_H0_not_strict(Z0, Z_critical) ==
    \/ real_gt(real_abs(Z0), Z_critical)
    \/ /\ IsFinite(Z0.q)
       /\ Mul(Mul(Z0.q, Z0.q), Q(Z0.root)) = Mul(Z_critical, Z_critical)

\* abs(Z0) > Z_critical
reject_H0_of(Z0, Z_critical) == real_gt(real_abs(Z0), Z_critical)

conclusion_of(reject_H0) == IF reject_H0 THEN DEPENDENT ELSE INDEPENDENT

\* fault: N <= m + i
not_enough_le(n, i_, m_) == n <= (m_ + i_)

\* fault: the starting position left out of the guard
not_enough_lag_only(n, i_, m_) == n < m_

\* the guard of the early return
not_enough(n, i_, m_) == n < (m_ + i_)

error_record(n, i_, m_) ==
    [error |-> <<"Not enough data for i=", i_, ", m=", m_, ". Need at least ", i_ + m_,
                 " numbers, got ", n, ".">>,
     positions |-> <<>>,
     subsequence |-> <<>>]

\* fault: the mean is not subtracted
numerator_not_centred(ar, a, mean_u, M, m_) ==
    np_sum(ar, array_times(ar, slice_to(a, M), slice_from(a, m_)))

\* sum((numbers[:M] - mean) * (numbers[m:] - mean))
numerator_of(ar, a, mean_u, M, m_) ==
    np_sum(ar, array_times(ar, array_minus(ar, slice_to(a, M), mean_u),
                               array_minus(ar, slice_from(a, m_), mean_u)))

\* fault: the last value left out of the sum
denominator_without_last(ar, a, mean_u) ==
    np_sum(ar, array_square(ar, array_minus(ar, SubSeq(a, 1, Len(a) - 1), mean_u)))

\* sum((numbers - mean) ** 2)
denominator_of(ar, a, mean_u) == np_sum(ar, array_square(ar, array_minus(ar, a, mean_u)))

\* the body after the guard: the statistic, the decision and the returned record
test_body(ar, a, i_, m_, alpha_) ==
    LET N == Len(a)
        mean_u == np_mean(ar, a)
        M == N - m_
    IN  IF ~broadcastable(slice_to(a, M), slice_from(a, m_))
        THEN [raised |-> "ValueError"]
        ELSE LET numerator == numerator_of(ar, a, mean_u, M, m_)
                 denominator == denominator_of(ar, a, mean_u)
                 r_m == Fl(ar, Div(numerator, denominator))
                 Z0 == real_times(ar, r_m, np_sqrt(ar, N))
                 Z_critical == norm_ppf(Sub(Q(1), Div(alpha_, Q(2))))
                 reject_H0 == reject_H0_of(Z0, Z_critical)
             IN  [N |-> N, i |-> i_, m |-> m_, M |-> M, alpha |-> alpha_,
                  mean |-> mean_u, r_m |-> r_m, Z0 |-> Z0,
                  Z_critical |-> Z_critical, reject_H0 |-> reject_H0,
                  conclusion |-> conclusion_of(reject_H0),
                  positions |-> positions_of(N), subsequence |-> a,
                  error |-> None]

\* fault: the statistic taken from position i on
autocorrelation_test_from_i(ar, a, i_, m_, alpha_) ==
    IF not_enough(Len(a), i_, m_) THEN error_record(Len(a), i_, m_)
    ELSE test_body(ar, slice_from(a, i_ - 1), i_, m_, alpha_)

autocorrelation_test(ar, a, i_, m_, alpha_) ==
    IF not_enough(Len(a), i_, m_) THEN error_record(Len(a), i_, m_)
    ELSE test_body(ar, a, i_, m_, alpha_)

\* ------------------------------------------------------------- the caller
Ariths == {"exact", "float"}

Texts == UNION {[1..n -> Chars] : n \in 0..MaxTextLen}

\* the sample values a call may pass: numbers the arithmetic represents
Values(ar) == {Q(v) : v \in {w \in {0, 1, 3} : Fl(ar, Q(w)) = Q(w)}}

Samples(ar) == UNION {[1..n -> Values(ar)] : n \in 0..MaxN}

\* the starting positions and the lags a call may pass
IArgs == (-1)..2

MArgs == (-1)..(MaxN - 1)

Alphas == {<<1, 20>>, <<3173, 10000>>, <<1, 2>>}

NoResult == [none |-> TRUE]

Init ==
    /\ pc = "idle"
    /\ fn = "none"
    /\ arith = "exact"
    /\ input_text = <<>>
    /\ numbers = <<>>
    /\ i = 1
    /\ m = 1
    /\ alpha = <<1, 20>>
    /\ result = NoResult

\* the caller invokes parse_input_numbers(text)
CallParse ==
    /\ pc = "idle"
    /\ \E ar \in Ariths, text \in Texts :
          /\ arith' = ar
          /\ input_text' = text
    /\ pc' = "called"
    /\ fn' = "parse_input_numbers"
    /\ numbers' = <<>>
    /\ i' = 1
    /\ m' = 1
    /\ alpha' = <<1, 20>>
    /\ result' = NoResult

\* parse_input_numbers runs and returns
ReturnParse ==
    /\ pc = "called"
    /\ fn = "parse_input_numbers"
    /\ pc' = "returned"
    /\ result' = [value |-> parse_input_numbers(arith, input_text)]
    /\ UNCHANGED <<fn, arith, input_text, numbers, i, m, alpha>>

\* the caller invokes autocorrelation_test(numbers, i, m, alpha)
CallTest ==
    /\ pc = "idle"
    /\ \E ar \in Ariths :
          /\ arith' = ar
          /\ numbers' \in Samples(ar)
    /\ i' \in IArgs
    /\ m' \in MArgs
    /\ alpha' \in Alphas
    /\ pc' = "called"
    /\ fn' = "autocorrelation_test"
    /\ input_text' = <<>>
    /\ result' = NoResult

\* autocorrelation_test runs and returns (or raises)
ReturnTest ==
    /\ pc = "called"
    /\ fn = "autocorrelation_test"
    /\ pc' = "returned"
    /\ result' = autocorrelation_test(arith, numbers, i, m, alpha)
    /\ UNCHANGED <<fn, arith, input_text, numbers, i, m, alpha>>

\* the caller has taken the returned value; nothing of the call remains
Finish ==
    /\ pc = "returned"
    /\ pc' = "idle"
    /\ fn' = "none"
    /\ arith' = "exact"
    /\ input_text' = <<>>
    /\ numbers' = <<>>
    /\ i' = 1
    /\ m' = 1
    /\ alpha' = <<1, 20>>
    /\ result' = NoResult

Next == CallParse \/ ReturnParse \/ CallTest \/ ReturnTest \/ Finish

Spec == Init /\ [][Next]_vars

\* ------------------------------------------------------------- properties
ParseReturned == pc = "returned" /\ fn = "parse_input_numbers"

TestReturned == pc = "returned" /\ fn = "autocorrelation_test"

IsError(r) == DOMAIN r = {"error", "positions", "subsequence"}

IsResult(r) ==
    DOMAIN r = {"N", "i", "m", "M", "alpha", "mean", "r_m", "Z0", "Z_critical",
                "reject_H0", "conclusion", "positions", "subsequence", "error"}

\* the square of a real q * sqrt(root), a rational
Square(z) == Mul(Mul(z.q, z.q), Q(z.root))

\* C1: a call with i >= 1, m >= 1 and N >= i + m returns a result with no
\* error, N = len(numbers), M = N - m, and i, m, alpha as passed.
C1_EnoughDataGivesResult ==
    (TestReturned /\ i >= 1 /\ m >= 1 /\ Len(numbers) >= i + m) =>
        /\ IsResult(result)
        /\ result.error = None
        /\ result.N = Len(numbers)
        /\ result.M = Len(numbers) - m
        /\ result.i = i
        /\ result.m = m
        /\ result.alpha = alpha

C1_Witness ==
    /\ TestReturned /\ i = 2 /\ m = 1 /\ Len(numbers) = 3
    /\ IsResult(result) /\ result.M = 2

\* C2: a call with N < i + m returns the error record: a message naming the
\* required i + m and the supplied N, no numeric field, empty positions and
\* subsequence.
C2_TooFewGivesError ==
    (TestReturned /\ Len(numbers) < i + m) =>
        /\ IsError(result)
        /\ result.error # None
        /\ result.error[6] = i + m
        /\ result.error[8] = Len(numbers)
        /\ result.positions = <<>>
        /\ result.subsequence = <<>>

C2_Witness ==
    /\ TestReturned /\ Len(numbers) = 3 /\ i = 2 /\ m = 2
    /\ IsError(result) /\ result.error[6] = 4 /\ result.error[8] = 3

\* C3: in every result, reject_H0 is true exactly when |Z0| > Z_critical,
\* strictly (|Z0| = Z_critical gives false), and the conclusion is the
\* DEPENDENT text exactly when reject_H0 is true, the INDEPENDENT text otherwise.
C3_RejectIffStrictlyGreater ==
    (TestReturned /\ IsResult(result)) =>
        /\ result.reject_H0 =
              (/\ ~IsNaN(result.Z0.q)
               /\ GT(Square(result.Z0), Mul(result.Z_critical, result.Z_critical)))
        /\ result.conclusion = (IF result.reject_H0 THEN DEPENDENT ELSE INDEPENDENT)

\* the boundary: |Z0| = Z_critical, not rejected
C3_Witness ==
    /\ TestReturned /\ IsResult(result) /\ arith = "exact"
    /\ ~IsNaN(result.Z0.q)
    /\ Square(result.Z0) = Mul(result.Z_critical, result.Z_critical)
    /\ result.reject_H0 = FALSE
    /\ result.conclusion = INDEPENDENT

Shifts == {-1, 2}

shifted(a, c) == [k \in 1..Len(a) |-> Add(a[k], Q(c))]

\* C4: in exact arithmetic, for N >= i + m and a non-zero sum of squared
\* deviations, adding a constant to every value leaves r_m, Z0 and reject_H0
\* unchanged.
C4_ShiftInvariant ==
    (TestReturned /\ arith = "exact" /\ i >= 1 /\ m >= 1 /\ IsResult(result)
       /\ ~IsNaN(result.r_m)) =>
        \A c \in Shifts :
            LET r2 == autocorrelation_test(arith, shifted(numbers, c), i, m, alpha)
            IN  /\ IsResult(r2)
                /\ r2.r_m = result.r_m
                /\ r2.Z0 = result.Z0
                /\ r2.reject_H0 = result.reject_H0

C4_Witness ==
    /\ TestReturned /\ arith = "exact" /\ i >= 1 /\ m >= 1 /\ IsResult(result)
    /\ numbers = <<Q(0), Q(1), Q(3)>>
    /\ ~IsNaN(result.r_m) /\ result.r_m # Q(0)

\* the tokens of a text: the maximal runs of characters other than commas,
\* spaces and newlines, as pairs <<first, last>>
Delimiters == {",", " ", "\n"}

Tokens(text) ==
    {t \in (1..Len(text)) \X (1..Len(text)) :
        /\ t[1] <= t[2]
        /\ \A k \in t[1]..t[2] : text[k] \notin Delimiters
        /\ t[1] = 1 \/ text[t[1] - 1] \in Delimiters
        /\ t[2] = Len(text) \/ text[t[2] + 1] \in Delimiters}

Parseable(text) == {t \in Tokens(text) : float_ok(SubSeq(text, t[1], t[2]))}

\* C5: parse_input_numbers returns exactly the values of the tokens that parse,
\* in their order in the text; the other tokens are dropped; a text with no
\* parseable token gives the empty sequence.
C5_ParseKeepsParseableTokens ==
    ParseReturned =>
        /\ DOMAIN result = {"value"}
        /\ Len(result.value) = Cardinality(Parseable(input_text))
        /\ \A t \in Parseable(input_text) :
              result.value[Cardinality({u \in Parseable(input_text) : u[1] <= t[1]})]
                  = float_value(arith, SubSeq(input_text, t[1], t[2]))

C5_Witness ==
    /\ ParseReturned /\ arith = "exact"
    /\ input_text = <<"x", ",", ".", "1">>
    /\ result.value = << <<1, 10>> >>

AllEqual(a) == \A k \in 1..Len(a) : a[k] = a[1]

\* C6: for i >= 1 and m >= 1 the call returns the error record or a full
\* result, never an abort; for a sample of equal values with N >= i + m it
\* returns a result with no error in which r_m and Z0 are NaN, reject_H0 is
\* false and the conclusion is the INDEPENDENT text.
C6_DegenerateSampleIsNaN ==
    (TestReturned /\ i >= 1 /\ m >= 1) =>
        /\ IsError(result) \/ IsResult(result)
        /\ (AllEqual(numbers) /\ Len(numbers) >= i + m) =>
              /\ IsResult(result)
              /\ result.error = None
              /\ IsNaN(result.r_m)
              /\ IsNaN(result.Z0.q)
              /\ result.reject_H0 = FALSE
              /\ result.conclusion = INDEPENDENT

\* C7 as stated: for every pair of integers i and m the call returns the error
\* record or a result with 1 <= M = N - m whose two slices have M elements.
C7_AnyIntegers ==
    TestReturned =>
        \/ IsError(result)
        \/ /\ IsResult(result)
           /\ 1 <= result.M
           /\ result.M = Len(numbers) - m
           /\ Len(slice_to(numbers, result.M)) = result.M
           /\ Len(slice_from(numbers, m)) = result.M

\* C7, amended: for every i >= 1 and m >= 1 the call returns the error record
\* or a result with 1 <= M = N - m whose two slices numbers[:M] and numbers[m:]
\* have M elements each.
C7_PositiveArguments ==
    (TestReturned /\ i >= 1 /\ m >= 1) =>
        \/ IsError(result)
        \/ /\ IsResult(result)
           /\ 1 <= result.M
           /\ result.M = Len(numbers) - m
           /\ Len(slice_to(numbers, result.M)) = result.M
           /\ Len(slice_from(numbers, m)) = result.M

C7_Witness ==
    /\ TestReturned /\ i = 1 /\ m = 2 /\ Len(numbers) = 4
    /\ IsResult(result) /\ result.M = 2
    /\ Len(slice_from(numbers, m)) = 2

RECURSIVE IntSum(_)
IntSum(a) == IF a = <<>> THEN 0 ELSE a[1][1] + IntSum(Tail(a))

Dev(a, k) == Len(a) * a[k][1] - IntSum(a)

RECURSIVE LagSum(_, _, _)
LagSum(a, lag, k) ==
    IF k = 0 THEN 0 ELSE Dev(a, k) * Dev(a, k + lag) + LagSum(a, lag, k - 1)

\* C9: the starting position is echoed and nothing else: two calls that differ
\* in i alone, both with N >= i + m, agree on every field but 'i'; in exact
\* arithmetic r_m is the sum over k = 1..M of the products of the deviations at
\* k and k + m, over the sum of all N squared deviations.
C9_StartNotInStatistic ==
    (TestReturned /\ i >= 1 /\ m >= 1 /\ IsResult(result)) =>
        /\ \A i2 \in {j \in IArgs : j >= 1 /\ j # i /\ Len(numbers) >= j + m} :
              LET r2 == autocorrelation_test(arith, numbers, i2, m, alpha)
              IN  /\ IsResult(r2)
                  /\ r2.i = i2
                  /\ [r2 EXCEPT !.i = i] = result
        /\ arith = "exact" =>
              result.r_m = Norm(LagSum(numbers, m, Len(numbers) - m),
                                LagSum(numbers, 0, Len(numbers)))

C9_Witness ==
    /\ TestReturned /\ i = 2 /\ m = 1 /\ IsResult(result)
    /\ numbers = <<Q(0), Q(1), Q(0), Q(1)>>
    /\ result.i = 2
    /\ result.r_m = <<-3, 4>>

\* C10: in exact arithmetic, for 1 <= m < N, |numerator| <= denominator, so
\* when the denominator is not zero -1 <= r_m <= 1 and |Z0| <= sqrt(N).
C10_CoefficientBounded ==
    (TestReturned /\ arith = "exact" /\ i >= 1 /\ m >= 1 /\ IsResult(result)) =>
        LET num == numerator_of(arith, numbers, result.mean, result.M, m)
            den == denominator_of(arith, numbers, result.mean)
        IN  /\ ~GT(Abs(num), den)
            /\ den # Q(0) =>
                  /\ result.r_m = Div(num, den)
                  /\ ~GT(Abs(result.r_m), Q(1))
                  /\ ~GT(Square(result.Z0), Q(Len(numbers)))

C10_Witness ==
    /\ TestReturned /\ arith = "exact" /\ m = 1 /\ IsResult(result)
    /\ numbers = <<Q(0), Q(1), Q(0), Q(1)>>
    /\ result.r_m = <<-3, 4>>
    /\ Square(result.Z0) = <<9, 4>>

====
